---- MODULE Spec2Model ----
(***************************************************************************)
(* The bootstrap pipeline of the ts-node command line (src/src/bin.ts):    *)
(* main -> bootstrap -> phase2 -> [child process] -> phase3 -> phase4.     *)
(* One invocation is modelled with its initial process ("parent") and the  *)
(* child process that callInChildWithEsm starts ("child").                 *)
(***************************************************************************)
EXTENDS Integers, Sequences, FiniteSets, TLC

----------------------------------------------------------------------------
(* Bounds of the model. *)

\* longest list of rest arguments
MaxRestArgs == 2
\* largest count of the --version flag
MaxVersion == 3
\* most chunks delivered on standard input
MaxChunks == 2
\* most chunks delivered on the standard input of a forked process
MaxForkedChunks == 0
\* longest command line given to parseArgv
MaxArgv == 3

----------------------------------------------------------------------------
(* JavaScript optional values: undefined is the empty tuple. *)

Undefined == << >>
Some(v) == <<v>>
IsDefined(o) == o # << >>
ValueOf(o) == o[1]

BoundedSeq(S, n) == UNION {[1..k -> S] : k \in 0..n}

----------------------------------------------------------------------------
(* Paths.  A path is a string; the tokens and directories of the model are *)
(* listed, so that resolve and dirname can be computed on them.            *)

ProcessCwd == "/home/user"
AbsolutePaths == {"/opt/main.ts", "/srv/app"}
Tokens == {"script.ts", "/opt/main.ts"}
CwdArgs == {"/srv/app"}
Dirs == {"/home/user", "/srv/app", "/opt", "/real/lib"}
Basenames == {"script.ts", "main.ts"}

\* path.resolve(from, to): an absolute `to` wins, a relative one is joined
Resolve(from, to) == IF to \in AbsolutePaths THEN to ELSE from \o "/" \o to

\* path.dirname(p)
Dirname(p) == CHOOSE d \in Dirs : \E b \in Basenames : p = d \o "/" \o b

----------------------------------------------------------------------------
(* The record parseArgv returns (the fields the pipeline reads). *)

ParseArgvResults ==
  [ code        : {Undefined, Some("1+1")},
    interactive : BOOLEAN,
    print       : BOOLEAN,
    restArgs    : BoundedSeq(Tokens, MaxRestArgs),
    scriptMode  : BOOLEAN,
    cwdMode     : BOOLEAN,
    esm         : BOOLEAN,
    help        : BOOLEAN,
    version     : 0..MaxVersion,
    showConfig  : BOOLEAN,
    cwdArg      : {Undefined} \cup {Some(d) : d \in CwdArgs} ]

Procs == {"parent", "child"}

\* a process the user code starts with child_process.fork: it inherits
\* process.execArgv and so lands in the child entry point
ForkedProcs == {"forked"}

AllProcs == Procs \cup ForkedProcs

VARIABLES
  parseArgvResult,  \* what parseArgv returned in main
  stdinIsTTY,       \* process.stdin.isTTY
  tsconfigEsm,      \* the esm option of the project configuration on disk
  pc,               \* position of each process in the pipeline
  state,            \* the bootstrap state each process holds
  epCalls,          \* the calls of getEntryPointInfo each process made
  configLookups,    \* number of calls of findAndReadConfig in each process
  spawnCount,       \* number of calls of callInChildWithEsm
  stdout,           \* what each process printed with console.log
  stderr,           \* what each process printed with console.error
  exitCode,         \* the argument of process.exit, when it was called
  thrown,           \* the error that left the pipeline uncaught
  processArgv,      \* process.argv
  execArgv,         \* process.execArgv
  service,          \* the compiler service and the REPL services of phase4
  ran,              \* the user code each process started, in order
  stdinBuffer,      \* the buffer of the stdin handlers, with the chunk count
  evalLog,          \* the calls of replService.evalCode, with how each ended
  stdinLog,         \* the chunks process.stdin delivered, in arrival order
  requireExtensions, \* require.extensions of each process
  resolveLog        \* the handler table as the script resolution of each
                    \* process found it

vars == << parseArgvResult, stdinIsTTY, tsconfigEsm, pc, state, epCalls,
           configLookups, spawnCount, stdout, stderr, exitCode, thrown,
           processArgv, execArgv, service, ran, stdinBuffer, evalLog,
           stdinLog, requireExtensions, resolveLog >>

envVars == << parseArgvResult, stdinIsTTY, tsconfigEsm >>

hostVars == << requireExtensions, resolveLog >>

----------------------------------------------------------------------------
(* getEntryPointInfo *)

\* variant: the entry point takes precedence over the inline code
ExecuteEval_EntrypointFirst(code, interactive, restArgs) ==
  IsDefined(code) /\ Len(restArgs) = 0

\* variant: the interactive flag with rest arguments does not cancel the eval
ExecuteEval_IgnoresInteractive(code, interactive, restArgs) ==
  IsDefined(code)

ExecuteEval(code, interactive, restArgs) ==
  IsDefined(code) /\ ~(interactive /\ Len(restArgs) # 0)

ExecuteEntrypoint(executeEval, restArgs) ==
  ~executeEval /\ Len(restArgs) > 0

\* variant: the REPL is not excluded by the entry point
ExecuteRepl_WithEntrypoint(executeEntrypoint, executeEval, interactive, isTTY) ==
  interactive \/ (isTTY /\ ~executeEval)

\* variant: the REPL is started whether or not standard input is a terminal
ExecuteRepl_IgnoresTTY(executeEntrypoint, executeEval, interactive, isTTY) ==
  ~executeEntrypoint /\ (interactive \/ ~executeEval)

ExecuteRepl(executeEntrypoint, executeEval, interactive, isTTY) ==
  ~executeEntrypoint /\ (interactive \/ (isTTY /\ ~executeEval))

\* variant: stdin is not excluded by the entry point
ExecuteStdin_WithEntrypoint(executeEval, executeRepl, executeEntrypoint) ==
  ~executeEval /\ ~executeRepl

ExecuteStdin(executeEval, executeRepl, executeEntrypoint) ==
  ~executeEval /\ ~executeRepl /\ ~executeEntrypoint

\* variant: the first rest argument is the entry point whatever the mode
EntryPointPath_FromRestArgs(executeEntrypoint, resolutionCwd, restArgs) ==
  IF restArgs # << >> THEN Some(Resolve(resolutionCwd, restArgs[1]))
  ELSE Undefined

EntryPointPath(executeEntrypoint, resolutionCwd, restArgs) ==
  IF executeEntrypoint THEN Some(Resolve(resolutionCwd, restArgs[1]))
  ELSE Undefined

GetEntryPointInfo(resolutionCwd, argvResult, isTTY) ==
  LET code == argvResult.code
      interactive == argvResult.interactive
      restArgs == argvResult.restArgs
      executeEval == ExecuteEval(code, interactive, restArgs)
      executeEntrypoint == ExecuteEntrypoint(executeEval, restArgs)
      executeRepl ==
        ExecuteRepl(executeEntrypoint, executeEval, interactive, isTTY)
      executeStdin == ExecuteStdin(executeEval, executeRepl, executeEntrypoint)
  IN  [ executeEval       |-> executeEval,
        executeEntrypoint |-> executeEntrypoint,
        executeRepl       |-> executeRepl,
        executeStdin      |-> executeStdin,
        entryPointPath    |->
          EntryPointPath(executeEntrypoint, resolutionCwd, restArgs) ]

\* one call of getEntryPointInfo, as logged in epCalls
EpCall(phase, resolutionCwd, argvResult, isTTY) ==
  [ phase         |-> phase,
    resolutionCwd |-> resolutionCwd,
    code          |-> argvResult.code,
    interactive   |-> argvResult.interactive,
    restArgs      |-> argvResult.restArgs,
    isTTY         |-> isTTY,
    info          |-> GetEntryPointInfo(resolutionCwd, argvResult, isTTY) ]

----------------------------------------------------------------------------
(* getProjectSearchDir *)

ErrCwdScript == "TypeError: --cwd-mode cannot be combined with --script-mode"
ErrNoScript == "TypeError: --script-mode must be used with a script name"
ErrNotFound == "Error: Cannot find module"
ErrConfig == "Error: configuration"

\* variant: the combination of script-mode and cwd-mode is not rejected
GetProjectSearchDir_NoConflictCheck(cwd, scriptMode, cwdMode, scriptPath, resolved) ==
  IF scriptMode /\ ~IsDefined(scriptPath)
    THEN [threw |-> Some(ErrNoScript), dir |-> Undefined]
  ELSE LET doScriptMode ==
             IF scriptMode THEN TRUE
             ELSE IF cwdMode THEN FALSE ELSE IsDefined(scriptPath)
       IN  IF doScriptMode
           THEN IF IsDefined(resolved)
                THEN [threw |-> Undefined, dir |-> Some(Dirname(ValueOf(resolved)))]
                ELSE [threw |-> Some(ErrNotFound), dir |-> Undefined]
           ELSE [threw |-> Undefined, dir |-> Some(cwd)]

\* variant: script-mode without a script name is not rejected
GetProjectSearchDir_NoScriptCheck(cwd, scriptMode, cwdMode, scriptPath, resolved) ==
  IF scriptMode /\ cwdMode THEN [threw |-> Some(ErrCwdScript), dir |-> Undefined]
  ELSE LET doScriptMode ==
             IF scriptMode THEN TRUE
             ELSE IF cwdMode THEN FALSE ELSE IsDefined(scriptPath)
       IN  IF doScriptMode
           THEN IF IsDefined(resolved)
                THEN [threw |-> Undefined, dir |-> Some(Dirname(ValueOf(resolved)))]
                ELSE [threw |-> Some(ErrNotFound), dir |-> Undefined]
           ELSE [threw |-> Undefined, dir |-> Some(cwd)]

\* variant: cwd-mode does not keep the search in the resolution directory
GetProjectSearchDir_IgnoresCwdMode(cwd, scriptMode, cwdMode, scriptPath, resolved) ==
  IF scriptMode /\ cwdMode THEN [threw |-> Some(ErrCwdScript), dir |-> Undefined]
  ELSE IF scriptMode /\ ~IsDefined(scriptPath)
    THEN [threw |-> Some(ErrNoScript), dir |-> Undefined]
  ELSE LET doScriptMode == IF scriptMode THEN TRUE ELSE IsDefined(scriptPath)
       IN  IF doScriptMode
           THEN IF IsDefined(resolved)
                THEN [threw |-> Undefined, dir |-> Some(Dirname(ValueOf(resolved)))]
                ELSE [threw |-> Some(ErrNotFound), dir |-> Undefined]
           ELSE [threw |-> Undefined, dir |-> Some(cwd)]

\* `resolved` is what requireResolveNonCached(scriptPath) gives: the real
\* path of the script, or Undefined when the resolution throws.
GetProjectSearchDir(cwd, scriptMode, cwdMode, scriptPath, resolved) ==
  IF scriptMode /\ cwdMode THEN [threw |-> Some(ErrCwdScript), dir |-> Undefined]
  ELSE IF scriptMode /\ ~IsDefined(scriptPath)
    THEN [threw |-> Some(ErrNoScript), dir |-> Undefined]
  ELSE LET doScriptMode ==
             IF scriptMode THEN TRUE
             ELSE IF cwdMode THEN FALSE ELSE IsDefined(scriptPath)
       IN  IF doScriptMode
           THEN IF IsDefined(resolved)
                THEN [threw |-> Undefined, dir |-> Some(Dirname(ValueOf(resolved)))]
                ELSE [threw |-> Some(ErrNotFound), dir |-> Undefined]
           ELSE [threw |-> Undefined, dir |-> Some(cwd)]

----------------------------------------------------------------------------
(* require.extensions during the resolution of the script (lines 774-797) *)

\* line 782
Exts == {".js", ".jsx", ".ts", ".tsx"}

AllExts == Exts \cup {".json"}

NoHandler == "none"
HostHandler == "host"
\* line 786: function () {}
TemporaryHandler == "function () {}"

\* the table of a process that registered nothing: .js and .json only
DefaultExtensions ==
  [ext \in AllExts |-> IF ext \in {".js", ".json"} THEN HostHandler ELSE NoHandler]

\* the tables a host can have before getProjectSearchDir is called
ExtensionTables ==
  { [ext \in AllExts |-> IF ext \in present THEN HostHandler ELSE NoHandler] :
      present \in { e \cup {".json"} : e \in SUBSET Exts } }

\* lines 783-789: the extensions that have no handler are recorded
ExtsTemporarilyInstalled(table) == {ext \in Exts : table[ext] = NoHandler}

\* lines 784-788: a handler that does nothing is installed for each of them
InstallTemporarily(table) ==
  [ext \in DOMAIN table |->
     IF ext \in Exts /\ table[ext] = NoHandler THEN TemporaryHandler
     ELSE table[ext]]

\* variant: the handlers are removed after a successful resolution only
RemoveTemporary_OnReturnOnly(table, installed, resolved) ==
  IF IsDefined(resolved)
  THEN [ext \in DOMAIN table |->
          IF ext \in installed THEN NoHandler ELSE table[ext]]
  ELSE table

\* lines 790-796: try { return ... } finally { delete each installed one },
\* whether the resolution returned or threw
RemoveTemporary(table, installed, resolved) ==
  [ext \in DOMAIN table |-> IF ext \in installed THEN NoHandler ELSE table[ext]]

\* lines 763-774: the call gets to the resolution of the script
ReachesResolution(scriptMode, cwdMode, scriptPath) ==
  /\ ~(scriptMode /\ cwdMode)
  /\ ~(scriptMode /\ ~IsDefined(scriptPath))
  /\ IF scriptMode THEN TRUE ELSE IF cwdMode THEN FALSE ELSE IsDefined(scriptPath)

\* what getProjectSearchDir does to require.extensions of process p, with a
\* record of the table as requireResolveNonCached found it
ProjectSearchEffect(p, scriptMode, cwdMode, scriptPath, resolved) ==
  IF ReachesResolution(scriptMode, cwdMode, scriptPath)
  THEN LET before == requireExtensions[p]
           installed == ExtsTemporarilyInstalled(before)
           during == InstallTemporarily(before)
       IN  /\ requireExtensions' =
                [requireExtensions EXCEPT
                   ![p] = RemoveTemporary(during, installed, resolved)]
           /\ resolveLog' =
                [resolveLog EXCEPT
                   ![p] = Some([ before |-> before, during |-> during,
                                 installed |-> installed,
                                 threw |-> ~IsDefined(resolved) ])]
  ELSE UNCHANGED hostVars

\* the outcomes of requireResolveNonCached for a script path: not found, the
\* path itself, or the target of a symbolic link
Resolutions(scriptPath) ==
  IF IsDefined(scriptPath)
  THEN {Undefined, scriptPath, Some("/real/lib/script.ts")}
  ELSE {Undefined}

----------------------------------------------------------------------------
(* phase3 *)

\* findAndReadConfig: the merged configuration, of which the pipeline reads
\* options.esm
FindAndReadConfig(projectSearchDir, configEsm) ==
  [ options |-> [esm |-> configEsm], projectSearchDir |-> projectSearchDir ]

\* enableEsmLoader: !!(preloadedConfig.options.esm || esm)
EnableEsmLoader(preloadedConfig, esm) == preloadedConfig.options.esm \/ esm

\* phase3 on a payload: the getEntryPointInfo call it makes, the error it
\* throws if any, the number of findAndReadConfig calls and its result.
Phase3(payload, isTTY, configEsm, resolved, configOk) ==
  LET argv == ValueOf(payload.initialArgv)
      resolutionCwd == ValueOf(payload.initialResolutionCwd)
      call == EpCall("phase3", resolutionCwd, argv, isTTY)
      search == GetProjectSearchDir(resolutionCwd, argv.scriptMode,
                  argv.cwdMode, call.info.entryPointPath, resolved)
  IN  IF IsDefined(search.threw)
      THEN [call |-> call, threw |-> search.threw, lookups |-> 0,
            result |-> Undefined]
      ELSE IF ~configOk
      THEN [call |-> call, threw |-> Some(ErrConfig), lookups |-> 1,
            result |-> Undefined]
      ELSE LET preloadedConfig ==
                 FindAndReadConfig(ValueOf(search.dir), configEsm)
           IN  [call |-> call, threw |-> Undefined, lookups |-> 1,
                result |-> Some(
                  [ preloadedConfig |-> preloadedConfig,
                    enableEsmLoader |->
                      EnableEsmLoader(preloadedConfig, argv.esm) ])]

----------------------------------------------------------------------------
(* The state after main has called parseArgv, before bootstrap. *)

NoState ==
  [ restArgs |-> << >>, initialArgv |-> Undefined,
    initialResolutionCwd |-> Undefined, phase3Result |-> Undefined ]

NoService ==
  [ created |-> 0, registered |-> FALSE, esmHooks |-> FALSE,
    virtualFiles |-> {}, bound |-> {} ]

Init ==
  /\ parseArgvResult \in ParseArgvResults
  /\ stdinIsTTY \in BOOLEAN
  /\ tsconfigEsm \in BOOLEAN
  /\ pc = [p \in AllProcs |-> IF p = "parent" THEN "phase2" ELSE "unborn"]
  /\ state = [p \in AllProcs |-> NoState]
  /\ epCalls = [p \in AllProcs |-> {}]
  /\ configLookups = [p \in AllProcs |-> 0]
  /\ spawnCount = 0
  /\ stdout = [p \in AllProcs |-> << >>]
  /\ stderr = [p \in AllProcs |-> << >>]
  /\ exitCode = [p \in AllProcs |-> Undefined]
  /\ thrown = [p \in AllProcs |-> Undefined]
  /\ processArgv =
       [p \in AllProcs |-> IF p = "parent" THEN <<"node", "bin.js">> ELSE << >>]
  /\ execArgv = [p \in AllProcs |-> << >>]
  /\ service = [p \in AllProcs |-> NoService]
  /\ ran = [p \in AllProcs |-> << >>]
  /\ stdinBuffer = [p \in AllProcs |-> Undefined]
  /\ evalLog = [p \in AllProcs |-> << >>]
  /\ stdinLog = [p \in AllProcs |-> << >>]
  /\ requireExtensions = [p \in AllProcs |-> DefaultExtensions]
  /\ resolveLog = [p \in AllProcs |-> Undefined]

----------------------------------------------------------------------------
(* phase2, with the construction of initialProcessState in bootstrap *)

\* variant: the version is tested before the help flag
Phase2_VersionFirst ==
  /\ pc["parent"] = "phase2"
  /\ IF parseArgvResult.version = 1
     THEN /\ stdout' = [stdout EXCEPT !["parent"] = Append(@, "vVERSION")]
          /\ exitCode' = [exitCode EXCEPT !["parent"] = Some(0)]
          /\ pc' = [pc EXCEPT !["parent"] = "exited"]
          /\ UNCHANGED state
     ELSE IF parseArgvResult.help
     THEN /\ stdout' = [stdout EXCEPT !["parent"] = Append(@, "usage")]
          /\ exitCode' = [exitCode EXCEPT !["parent"] = Some(0)]
          /\ pc' = [pc EXCEPT !["parent"] = "exited"]
          /\ UNCHANGED state
     ELSE LET resolutionCwd ==
                IF IsDefined(parseArgvResult.cwdArg)
                THEN Resolve(ProcessCwd, ValueOf(parseArgvResult.cwdArg))
                ELSE ProcessCwd
          IN  /\ state' = [state EXCEPT !["parent"] =
                   [ restArgs |-> parseArgvResult.restArgs,
                     initialArgv |-> Some(parseArgvResult),
                     initialResolutionCwd |-> Some(resolutionCwd),
                     phase3Result |-> Undefined ]]
              /\ pc' = [pc EXCEPT !["parent"] = "bootstrap"]
              /\ UNCHANGED << stdout, exitCode >>
  /\ UNCHANGED << envVars, hostVars, epCalls, configLookups, spawnCount,
                  stderr, thrown, processArgv, execArgv, service, ran,
                  stdinBuffer, evalLog, stdinLog >>

\* phase2 (lines 314-379) and lines 102-108 of bootstrap
Phase2 ==
  /\ pc["parent"] = "phase2"
  /\ IF parseArgvResult.help
     THEN /\ stdout' = [stdout EXCEPT !["parent"] = Append(@, "usage")]
          /\ exitCode' = [exitCode EXCEPT !["parent"] = Some(0)]
          /\ pc' = [pc EXCEPT !["parent"] = "exited"]
          /\ UNCHANGED state
     ELSE IF parseArgvResult.version = 1
     THEN /\ stdout' = [stdout EXCEPT !["parent"] = Append(@, "vVERSION")]
          /\ exitCode' = [exitCode EXCEPT !["parent"] = Some(0)]
          /\ pc' = [pc EXCEPT !["parent"] = "exited"]
          /\ UNCHANGED state
     ELSE LET resolutionCwd ==
                IF IsDefined(parseArgvResult.cwdArg)
                THEN Resolve(ProcessCwd, ValueOf(parseArgvResult.cwdArg))
                ELSE ProcessCwd
          IN  /\ state' = [state EXCEPT !["parent"] =
                   [ restArgs |-> parseArgvResult.restArgs,
                     initialArgv |-> Some(parseArgvResult),
                     initialResolutionCwd |-> Some(resolutionCwd),
                     phase3Result |-> Undefined ]]
              /\ pc' = [pc EXCEPT !["parent"] = "bootstrap"]
              /\ UNCHANGED << stdout, exitCode >>
  /\ UNCHANGED << envVars, hostVars, epCalls, configLookups, spawnCount,
                  stderr, thrown, processArgv, execArgv, service, ran,
                  stdinBuffer, evalLog, stdinLog >>

----------------------------------------------------------------------------
(* callInChildWithEsm: the child process is started with the state it is   *)
(* given and resumes in completeBootstrap.                                 *)

\* variant: bootstrap goes on to completeBootstrap after callInChildWithEsm
AfterCallInChild_FallsThrough == "completeBootstrap"

\* bootstrap, lines 113-116 and 121-127: after callInChildWithEsm bootstrap
\* returns (the `return` of the esm branch, the `else` of the phase3 branch)
AfterCallInChild == "returned"

CallInChildWithEsm(childState) ==
  /\ spawnCount' = spawnCount + 1
  /\ state' = [state EXCEPT !["child"] = childState]
  /\ processArgv' =
       [processArgv EXCEPT !["child"] = <<"node", "child-entrypoint.js">>]
  /\ pc' = [pc EXCEPT !["parent"] = AfterCallInChild,
                      !["child"] = "completeBootstrap"]

\* variant: phase3 is never left to the child process
SkipsPhase3_Never(argv) == FALSE

\* line 113: with the esm flag the initial process skips phase3
SkipsPhase3(argv) == argv.esm

\* bootstrap, lines 113-116: the explicit esm flag skips phase3
BootstrapEsm ==
  /\ pc["parent"] = "bootstrap"
  /\ SkipsPhase3(ValueOf(state["parent"].initialArgv))
  /\ CallInChildWithEsm(state["parent"])
  /\ UNCHANGED << envVars, hostVars, epCalls, configLookups, stdout, stderr,
                  exitCode, thrown, execArgv, service, ran, stdinBuffer,
                  evalLog, stdinLog >>

\* bootstrap, lines 118-127: phase3 in the initial process, then the child
\* process or completeBootstrap
BootstrapPhase3 ==
  /\ pc["parent"] = "bootstrap"
  /\ ~SkipsPhase3(ValueOf(state["parent"].initialArgv))
  /\ \E configOk \in BOOLEAN :
     \E resolved \in Resolutions(
          GetEntryPointInfo(ValueOf(state["parent"].initialResolutionCwd),
            ValueOf(state["parent"].initialArgv), stdinIsTTY).entryPointPath) :
       LET r == Phase3(state["parent"], stdinIsTTY, tsconfigEsm, resolved,
                       configOk)
           argv == ValueOf(state["parent"].initialArgv)
       IN  /\ epCalls' = [epCalls EXCEPT !["parent"] = @ \cup {r.call}]
           /\ ProjectSearchEffect("parent", argv.scriptMode, argv.cwdMode,
                r.call.info.entryPointPath, resolved)
           /\ configLookups' = [configLookups EXCEPT !["parent"] = @ + r.lookups]
           /\ IF IsDefined(r.threw)
              THEN /\ thrown' = [thrown EXCEPT !["parent"] = r.threw]
                   /\ pc' = [pc EXCEPT !["parent"] = "threw"]
                   /\ UNCHANGED << state, spawnCount, processArgv >>
              ELSE IF ValueOf(r.result).enableEsmLoader
              THEN /\ CallInChildWithEsm(state["parent"])
                   /\ UNCHANGED thrown
              ELSE /\ state' = [state EXCEPT !["parent"].phase3Result = r.result]
                   /\ pc' = [pc EXCEPT !["parent"] = "completeBootstrap"]
                   /\ UNCHANGED << thrown, spawnCount, processArgv >>
  /\ UNCHANGED << envVars, stdout, stderr, exitCode, execArgv, service, ran,
                  stdinBuffer, evalLog, stdinLog >>

----------------------------------------------------------------------------
(* completeBootstrap: phase3 if the state has no phase3Result, then phase4 *)

\* variant: phase3 is run whether or not the state has a phase3Result
NeedsPhase3_Always(payload) == TRUE

\* line 137: state.phase3Result === undefined
NeedsPhase3(payload) == ~IsDefined(payload.phase3Result)

CompleteBootstrap(p) ==
  /\ pc[p] = "completeBootstrap"
  /\ IF NeedsPhase3(state[p])
     THEN \E configOk \in BOOLEAN :
          \E resolved \in Resolutions(
               GetEntryPointInfo(ValueOf(state[p].initialResolutionCwd),
                 ValueOf(state[p].initialArgv), stdinIsTTY).entryPointPath) :
            LET r == Phase3(state[p], stdinIsTTY, tsconfigEsm, resolved,
                            configOk)
                argv == ValueOf(state[p].initialArgv)
            IN  /\ epCalls' = [epCalls EXCEPT ![p] = @ \cup {r.call}]
                /\ ProjectSearchEffect(p, argv.scriptMode, argv.cwdMode,
                     r.call.info.entryPointPath, resolved)
                /\ configLookups' = [configLookups EXCEPT ![p] = @ + r.lookups]
                /\ IF IsDefined(r.threw)
                   THEN /\ thrown' = [thrown EXCEPT ![p] = r.threw]
                        /\ pc' = [pc EXCEPT ![p] = "threw"]
                        /\ UNCHANGED state
                   ELSE /\ state' = [state EXCEPT ![p].phase3Result = r.result]
                        /\ pc' = [pc EXCEPT ![p] = "phase4"]
                        /\ UNCHANGED thrown
     ELSE /\ pc' = [pc EXCEPT ![p] = "phase4"]
          /\ UNCHANGED << state, epCalls, configLookups, thrown, hostVars >>
  /\ UNCHANGED << envVars, spawnCount, stdout, stderr, exitCode, processArgv,
                  execArgv, service, ran, stdinBuffer, evalLog, stdinLog >>

----------------------------------------------------------------------------
(* phase4 *)

\* variant: phase4 resolves the entry point against the working directory
Phase4Call_FromProcessCwd(payload, isTTY) ==
  EpCall("phase4", ProcessCwd,
    [ code |-> IF IsDefined(payload.initialArgv)
               THEN ValueOf(payload.initialArgv).code ELSE Undefined,
      interactive |-> IF IsDefined(payload.initialArgv)
                      THEN ValueOf(payload.initialArgv).interactive ELSE FALSE,
      restArgs |-> payload.restArgs ],
    isTTY)

\* variant: without initialArgv the interactive flag is taken as set
Phase4Call_ForkedInteractive(payload, isTTY) ==
  EpCall("phase4",
    IF IsDefined(payload.initialResolutionCwd)
    THEN ValueOf(payload.initialResolutionCwd) ELSE ProcessCwd,
    [ code |-> IF IsDefined(payload.initialArgv)
               THEN ValueOf(payload.initialArgv).code ELSE Undefined,
      interactive |-> IF IsDefined(payload.initialArgv)
                      THEN ValueOf(payload.initialArgv).interactive ELSE TRUE,
      restArgs |-> payload.restArgs ],
    isTTY)

\* the getEntryPointInfo call of phase4 (lines 512-526): the code and the
\* interactive flag come from initialArgv, which a forked process does not have
Phase4Call(payload, isTTY) ==
  EpCall("phase4",
    IF IsDefined(payload.initialResolutionCwd)
    THEN ValueOf(payload.initialResolutionCwd) ELSE ProcessCwd,
    [ code |-> IF IsDefined(payload.initialArgv)
               THEN ValueOf(payload.initialArgv).code ELSE Undefined,
      interactive |-> IF IsDefined(payload.initialArgv)
                      THEN ValueOf(payload.initialArgv).interactive ELSE FALSE,
      restArgs |-> payload.restArgs ],
    isTTY)

\* the virtual files phase4 creates, one per active mode (lines 537-583)
VirtualFiles(info) ==
  {m \in {"eval", "stdin", "repl"} :
     \/ m = "eval" /\ info.executeEval
     \/ m = "stdin" /\ info.executeStdin
     \/ m = "repl" /\ info.executeRepl}

\* variant: the REPL service of the inline code is not bound
BoundServices_NotEval(virtualFiles) == virtualFiles \ {"eval"}

\* lines 605-607: setService(service) on the REPL service of every virtual
\* file that exists (replStuff, evalStuff, stdinStuff)
BoundServices(virtualFiles) ==
  {m \in {"repl", "eval", "stdin"} : m \in virtualFiles}

\* lines 511-607: the entry-point information, the virtual files, the
\* compiler service, its registration and its binding to the REPL services
Phase4Setup(p) ==
  /\ pc[p] = "phase4"
  /\ LET call == Phase4Call(state[p], stdinIsTTY)
     IN  /\ epCalls' = [epCalls EXCEPT ![p] = @ \cup {call}]
         /\ service' = [service EXCEPT ![p] =
              [ created |-> @.created + 1,
                registered |-> TRUE,
                esmHooks |-> ValueOf(state[p].phase3Result).enableEsmLoader,
                virtualFiles |-> VirtualFiles(call.info),
                bound |-> BoundServices(VirtualFiles(call.info)) ]]
  /\ pc' = [pc EXCEPT ![p] = "phase4Info"]
  /\ UNCHANGED << envVars, hostVars, state, configLookups, spawnCount, stdout,
                  stderr, exitCode, thrown, processArgv, execArgv, ran,
                  stdinBuffer, evalLog, stdinLog >>

\* variant: without initialArgv the version count is taken as 2
VersionOf_TwoWithoutArgv(payload) ==
  IF IsDefined(payload.initialArgv) THEN ValueOf(payload.initialArgv).version
  ELSE 2

\* initialArgv?.version ?? 0 and initialArgv?.showConfig
VersionOf(payload) ==
  IF IsDefined(payload.initialArgv) THEN ValueOf(payload.initialArgv).version
  ELSE 0

\* variant: the show-configuration flag is not looked at
ShowConfigOf_Never(payload) == FALSE

\* line 625: payload.initialArgv?.showConfig
ShowConfigOf(payload) ==
  IF IsDefined(payload.initialArgv) THEN ValueOf(payload.initialArgv).showConfig
  ELSE FALSE

\* lines 609-672: the version and show-configuration exits
Phase4Introspect(p) ==
  /\ pc[p] = "phase4Info"
  /\ IF VersionOf(state[p]) = 2
     THEN /\ stdout' = [stdout EXCEPT ![p] =
               @ \o <<"ts-node vVERSION", "node", "compiler">>]
          /\ exitCode' = [exitCode EXCEPT ![p] = Some(0)]
          /\ pc' = [pc EXCEPT ![p] = "exited"]
          /\ UNCHANGED stderr
     ELSE IF VersionOf(state[p]) >= 3
     THEN /\ stdout' = [stdout EXCEPT ![p] =
               @ \o <<"ts-node vVERSION dir", "node", "compiler path">>]
          /\ exitCode' = [exitCode EXCEPT ![p] = Some(0)]
          /\ pc' = [pc EXCEPT ![p] = "exited"]
          /\ UNCHANGED stderr
     ELSE IF ShowConfigOf(state[p])
     THEN \E canConvert \in BOOLEAN :
            IF ~canConvert
            THEN /\ stderr' = [stderr EXCEPT ![p] =
                      Append(@, "Error: --showConfig requires typescript >=3.2")]
                 /\ exitCode' = [exitCode EXCEPT ![p] = Some(1)]
                 /\ pc' = [pc EXCEPT ![p] = "exited"]
                 /\ UNCHANGED stdout
            ELSE /\ stdout' = [stdout EXCEPT ![p] = Append(@, "config json")]
                 /\ exitCode' = [exitCode EXCEPT ![p] = Some(0)]
                 /\ pc' = [pc EXCEPT ![p] = "exited"]
                 /\ UNCHANGED stderr
     ELSE /\ pc' = [pc EXCEPT ![p] = "phase4Run"]
          /\ UNCHANGED << stdout, stderr, exitCode >>
  /\ UNCHANGED << envVars, hostVars, state, epCalls, configLookups,
                  spawnCount, thrown, processArgv, execArgv, service, ran,
                  stdinBuffer, evalLog, stdinLog >>

\* variant: the state for forked processes is the whole state it is given
CreateBootstrapStateForChildProcess_Spreads(payload) ==
  [ restArgs |-> payload.restArgs,
    initialArgv |-> payload.initialArgv,
    initialResolutionCwd |-> payload.initialResolutionCwd,
    phase3Result |->
      [ enableEsmLoader |-> ValueOf(payload.phase3Result).enableEsmLoader,
        preloadedConfig |-> ValueOf(payload.phase3Result).preloadedConfig ] ]

\* variant: the state for forked processes resets enableEsmLoader
CreateBootstrapStateForChildProcess_ResetsEsm(payload) ==
  [ restArgs |-> payload.restArgs,
    phase3Result |->
      [ enableEsmLoader |-> FALSE,
        preloadedConfig |-> ValueOf(payload.phase3Result).preloadedConfig ] ]

\* createBootstrapStateForChildProcess
CreateBootstrapStateForChildProcess(payload) ==
  [ restArgs |-> payload.restArgs,
    phase3Result |->
      [ enableEsmLoader |-> ValueOf(payload.phase3Result).enableEsmLoader,
        preloadedConfig |-> ValueOf(payload.phase3Result).preloadedConfig ] ]

\* lines 674-687: what phase4 appends to process.execArgv
ChildExecArgs(payload) ==
  << [ childScriptPath |-> "child-entrypoint.js",
       childScriptArgs |-> CreateBootstrapStateForChildProcess(payload) ] >>

\* variant: the script token is not removed from the rest arguments
RewriteArgv_KeepsScriptToken(argv, info, restArgs) ==
  <<argv[2]>>
    \o (IF info.executeEntrypoint THEN <<ValueOf(info.entryPointPath)>>
        ELSE << >>)
    \o restArgs

\* lines 690-692: the rewritten process.argv
RewriteArgv(argv, info, restArgs) ==
  <<argv[2]>>
    \o (IF info.executeEntrypoint THEN <<ValueOf(info.entryPointPath)>>
        ELSE << >>)
    \o SubSeq(restArgs, IF info.executeEntrypoint THEN 2 ELSE 1, Len(restArgs))

EvalOutcomes == {"value", "TSError", "Error"}

\* the value of a piece of code: 1+1 is the number 2, the empty program is
\* undefined, any other text stands for a string-valued expression
ResultOf(code) ==
  IF code = "1+1" THEN [type |-> "number", num |-> 1 + 1, str |-> ""]
  ELSE IF code = "" THEN [type |-> "undefined", num |-> 0, str |-> ""]
  ELSE [type |-> "string", num |-> 0, str |-> code]

\* replService.evalCode(code) when the evaluation ends with `outcome`: the
\* value it returns or the error it throws (a TSError or any other error)
EvalCode(code, outcome) ==
  [ threw |-> IF outcome = "value" THEN Undefined
              ELSE Some(outcome \o ": thrown by " \o code),
    isTSError |-> outcome = "TSError",
    result |-> ResultOf(code) ]

\* util.inspect(result)
Inspect(result) ==
  IF result.type = "number" THEN ToString(result.num)
  ELSE IF result.type = "string" THEN "'" \o result.str \o "'"
  ELSE "undefined"

\* lines 852-856: typeof result === 'string' ? result : inspect(result)
ConsoleLogOf(result) ==
  IF result.type = "string" THEN result.str ELSE Inspect(result)

\* variant: the catch block swallows every error and the result is printed
EvalAndExitOnTsError_Swallows(code, isPrinted, outcome) ==
  [ stdout |-> IF isPrinted
               THEN <<ConsoleLogOf(EvalCode(code, outcome).result)>> ELSE << >>,
    stderr |-> << >>, exit |-> Undefined, thrown |-> Undefined ]

\* variant: every error is handled as a TSError is
EvalAndExitOnTsError_CatchesAll(code, isPrinted, outcome) ==
  LET r == EvalCode(code, outcome)
  IN  IF IsDefined(r.threw)
      THEN [ stdout |-> << >>, stderr |-> <<ValueOf(r.threw)>>,
             exit |-> Some(1), thrown |-> Undefined ]
      ELSE [ stdout |-> IF isPrinted THEN <<ConsoleLogOf(r.result)>>
                        ELSE << >>,
             stderr |-> << >>, exit |-> Undefined, thrown |-> Undefined ]

\* variant: the result is printed whether or not isPrinted is set
EvalAndExitOnTsError_AlwaysPrints(code, isPrinted, outcome) ==
  LET r == EvalCode(code, outcome)
  IN  IF IsDefined(r.threw) /\ r.isTSError
      THEN [ stdout |-> << >>, stderr |-> <<ValueOf(r.threw)>>,
             exit |-> Some(1), thrown |-> Undefined ]
      ELSE IF IsDefined(r.threw)
      THEN [ stdout |-> << >>, stderr |-> << >>, exit |-> Undefined,
             thrown |-> r.threw ]
      ELSE [ stdout |-> <<ConsoleLogOf(r.result)>>,
             stderr |-> << >>, exit |-> Undefined, thrown |-> Undefined ]

\* evalAndExitOnTsError(code, isPrinted) when replService.evalCode ends with
\* `outcome`: what is printed, the exit code and the error rethrown
EvalAndExitOnTsError(code, isPrinted, outcome) ==
  LET r == EvalCode(code, outcome)
  IN  IF IsDefined(r.threw) /\ r.isTSError
      THEN [ stdout |-> << >>, stderr |-> <<ValueOf(r.threw)>>,
             exit |-> Some(1), thrown |-> Undefined ]
      ELSE IF IsDefined(r.threw)
      THEN [ stdout |-> << >>, stderr |-> << >>, exit |-> Undefined,
             thrown |-> r.threw ]
      ELSE [ stdout |-> IF isPrinted THEN <<ConsoleLogOf(r.result)>>
                        ELSE << >>,
             stderr |-> << >>, exit |-> Undefined, thrown |-> Undefined ]

\* an entry of evalLog
Evaluation(kind, code, isPrinted, outcome) ==
  [kind |-> kind, code |-> code, isPrinted |-> isPrinted, outcome |-> outcome]

Event(kind, arg) == [kind |-> kind, arg |-> arg]

\* the pc of a process after an evaluation
AfterEval(e, next) ==
  IF IsDefined(e.exit) THEN "exited"
  ELSE IF IsDefined(e.thrown) THEN "threw" ELSE next

\* lines 674-737: the state for forked processes, the rewrite of process.argv
\* and the dispatch to the entry point, the inline code, the REPL or stdin
Phase4Run(p) ==
  /\ pc[p] = "phase4Run"
  /\ LET payload == state[p]
         info == Phase4Call(payload, stdinIsTTY).info
         argv == payload.initialArgv
     IN
     /\ execArgv' = [execArgv EXCEPT ![p] = @ \o ChildExecArgs(payload)]
     /\ processArgv' = [processArgv EXCEPT ![p] =
                          RewriteArgv(@, info, payload.restArgs)]
     /\ IF info.executeEntrypoint
        THEN \E nodeLt1860 \in BOOLEAN :
               /\ ran' = [ran EXCEPT ![p] = Append(@,
                    Event(IF ValueOf(payload.phase3Result).enableEsmLoader
                             /\ nodeLt1860
                          THEN "runmain-hack" ELSE "runMain",
                          ValueOf(info.entryPointPath)))]
               /\ pc' = [pc EXCEPT ![p] = "userCode"]
               /\ UNCHANGED << stdout, stderr, exitCode, thrown, stdinBuffer,
                               evalLog >>
        ELSE \E outcome \in EvalOutcomes :
               LET e == IF info.executeEval
                        THEN EvalAndExitOnTsError(ValueOf(ValueOf(argv).code),
                               ValueOf(argv).print, outcome)
                        ELSE EvalAndExitOnTsError("", FALSE, "value")
                   alive == ~IsDefined(e.exit) /\ ~IsDefined(e.thrown)
                   evalRan == IF info.executeEval
                              THEN <<Event("eval", ValueOf(ValueOf(argv).code))>>
                              ELSE << >>
                   replRan == IF alive /\ info.executeRepl
                              THEN <<Event("repl", "")>> ELSE << >>
               IN  /\ (~info.executeEval => outcome = "value")
                   /\ ran' = [ran EXCEPT ![p] = @ \o evalRan \o replRan]
                   /\ evalLog' = [evalLog EXCEPT ![p] =
                        IF info.executeEval
                        THEN Append(@, Evaluation("eval",
                               ValueOf(ValueOf(argv).code), ValueOf(argv).print,
                               outcome))
                        ELSE @]
                   /\ stdout' = [stdout EXCEPT ![p] = @ \o e.stdout]
                   /\ stderr' = [stderr EXCEPT ![p] = @ \o e.stderr]
                   /\ exitCode' = [exitCode EXCEPT ![p] = e.exit]
                   /\ thrown' = [thrown EXCEPT ![p] = e.thrown]
                   /\ stdinBuffer' = [stdinBuffer EXCEPT ![p] =
                        IF alive /\ info.executeStdin
                        THEN Some([ buffer |->
                                      IF IsDefined(argv)
                                         /\ IsDefined(ValueOf(argv).code)
                                      THEN ValueOf(ValueOf(argv).code) ELSE "",
                                    chunks |-> 0 ])
                        ELSE @]
                   /\ pc' = [pc EXCEPT ![p] =
                        AfterEval(e,
                          IF info.executeStdin THEN "stdinWait"
                          ELSE IF info.executeRepl THEN "repl"
                          ELSE "finished")]
  /\ UNCHANGED << envVars, hostVars, state, epCalls, configLookups,
                  spawnCount, service, stdinLog >>

----------------------------------------------------------------------------
(* the handlers phase4 registers on process.stdin (lines 725-735) *)

\* the chunks process.stdin delivers are byte buffers: the letter a, the two
\* bytes of a UTF-8 encoded e-acute, and each of these two bytes alone (the
\* stream may split the character between two chunks)
Chunks == { <<97>>, <<195, 169>>, <<195>>, <<169>> }

\* the character with code point cp
CharOf(cp) == IF cp = 97 THEN "a" ELSE "U+" \o ToString(cp)

\* Buffer.prototype.toString(): UTF-8 decoding, a byte that is no part of a
\* complete character becoming U+FFFD
RECURSIVE Utf8ToString(_)
Utf8ToString(bytes) ==
  IF bytes = << >> THEN ""
  ELSE IF bytes[1] < 128
  THEN CharOf(bytes[1]) \o Utf8ToString(Tail(bytes))
  ELSE IF /\ bytes[1] \in 194..223
          /\ Len(bytes) >= 2
          /\ bytes[2] \in 128..191
  THEN CharOf((bytes[1] - 192) * 64 + (bytes[2] - 128))
         \o Utf8ToString(Tail(Tail(bytes)))
  ELSE CharOf(65533) \o Utf8ToString(Tail(bytes))

\* variant: the data handler keeps only the last chunk
BufferAfterData_Overwrites(buffer, chunk) == Utf8ToString(chunk)

\* line 726: buffer += chunk, the chunk being converted to a string
BufferAfterData(buffer, chunk) == buffer \o Utf8ToString(chunk)

StdinData(p) ==
  /\ pc[p] = "stdinWait"
  /\ ValueOf(stdinBuffer[p]).chunks
       < (IF p \in ForkedProcs THEN MaxForkedChunks ELSE MaxChunks)
  /\ \E chunk \in Chunks :
       /\ stdinBuffer' = [stdinBuffer EXCEPT ![p] =
            Some([ buffer |-> BufferAfterData(ValueOf(@).buffer, chunk),
                   chunks |-> ValueOf(@).chunks + 1 ])]
       /\ stdinLog' = [stdinLog EXCEPT ![p] = Append(@, chunk)]
  /\ UNCHANGED << envVars, hostVars, pc, state, epCalls, configLookups,
                  spawnCount, stdout, stderr, exitCode, thrown, processArgv,
                  execArgv, service, ran, evalLog >>

StdinEnd(p) ==
  /\ pc[p] = "stdinWait"
  /\ \E outcome \in EvalOutcomes :
       LET buffer == ValueOf(stdinBuffer[p]).buffer
           isPrinted == IF IsDefined(state[p].initialArgv)
                        THEN ValueOf(state[p].initialArgv).print ELSE FALSE
           e == EvalAndExitOnTsError(buffer, isPrinted, outcome)
       IN  /\ ran' = [ran EXCEPT ![p] = Append(@, Event("stdin", buffer))]
           /\ evalLog' = [evalLog EXCEPT ![p] =
                Append(@, Evaluation("stdin", buffer, isPrinted, outcome))]
           /\ stdout' = [stdout EXCEPT ![p] = @ \o e.stdout]
           /\ stderr' = [stderr EXCEPT ![p] = @ \o e.stderr]
           /\ exitCode' = [exitCode EXCEPT ![p] = e.exit]
           /\ thrown' = [thrown EXCEPT ![p] = e.thrown]
           /\ pc' = [pc EXCEPT ![p] = AfterEval(e, "finished")]
  /\ UNCHANGED << envVars, hostVars, state, epCalls, configLookups, spawnCount,
                  processArgv, execArgv, service, stdinBuffer, stdinLog >>

----------------------------------------------------------------------------
(* A process forked by the user code.  Its command line is the inherited   *)
(* process.execArgv, that is the child entry point and the encoded state,  *)
(* followed by the arguments of the fork.                                  *)

\* the encoded state, as the list of the properties of its JSON text
EncodeState(forkState) ==
  << <<"restArgs", forkState.restArgs>>,
     <<"enableEsmLoader", forkState.phase3Result.enableEsmLoader>>,
     <<"options.esm", forkState.phase3Result.preloadedConfig.options.esm>>,
     <<"projectSearchDir",
       forkState.phase3Result.preloadedConfig.projectSearchDir>> >>

DecodeState(json) ==
  [ restArgs |-> json[1][2],
    phase3Result |->
      [ enableEsmLoader |-> json[2][2],
        preloadedConfig |->
          [ options |-> [esm |-> json[3][2]],
            projectSearchDir |-> json[4][2] ] ] ]

\* the rest arguments of a forked process: the ones of the encoded state, or
\* what the fork was given (nothing, or one script)
ForkRestArgs(persisted) ==
  {persisted.restArgs, << >>} \cup {<<token>> : token \in Tokens}

\* the child entry point of a forked process: the state is decoded and the
\* process resumes in completeBootstrap, with no initialArgv and no
\* initialResolutionCwd
Fork(p) ==
  /\ pc["forked"] = "unborn"
  /\ pc[p] \in {"userCode", "repl", "finished"}
  /\ ran[p] # << >>
  /\ LET persisted ==
           DecodeState(EncodeState(execArgv[p][Len(execArgv[p])].childScriptArgs))
     IN  \E restArgs \in ForkRestArgs(persisted) :
           state' = [state EXCEPT !["forked"] =
             [ restArgs |-> restArgs,
               initialArgv |-> Undefined,
               initialResolutionCwd |-> Undefined,
               phase3Result |-> Some(persisted.phase3Result) ]]
  /\ processArgv' =
       [processArgv EXCEPT !["forked"] = <<"node", "child-entrypoint.js">>]
  /\ pc' = [pc EXCEPT !["forked"] = "completeBootstrap"]
  /\ UNCHANGED << envVars, hostVars, epCalls, configLookups, spawnCount,
                  stdout, stderr, exitCode, thrown, execArgv, service, ran,
                  stdinBuffer, evalLog, stdinLog >>

Next ==
  \/ Phase2
  \/ BootstrapEsm
  \/ BootstrapPhase3
  \/ \E p \in AllProcs : CompleteBootstrap(p)
  \/ \E p \in AllProcs : Phase4Setup(p)
  \/ \E p \in AllProcs : Phase4Introspect(p)
  \/ \E p \in AllProcs : Phase4Run(p)
  \/ \E p \in AllProcs : StdinData(p)
  \/ \E p \in AllProcs : StdinEnd(p)
  \/ \E p \in Procs : Fork(p)

Spec == Init /\ [][Next]_vars

----------------------------------------------------------------------------
(* parseArgv.  The command line is a sequence of tokens; the option parser *)
(* is called with the table of lines 155-228 (here its entries for -e, -i, *)
(* -h and -v) and with stopAtPositional.                                   *)

ArgvTokens == {"-e", "-i", "-h", "-v", "--", "script.ts", "1+1"}

\* a token of more than one character that starts with a dash
LooksLikeOption(token) == token \in {"-e", "-i", "-h", "-v", "--"}

\* lines 157-166 and 195-201: the aliases and the option each stands for
OptionOf(token) ==
  IF token = "-e" THEN "--eval"
  ELSE IF token = "-i" THEN "--interactive"
  ELSE IF token = "-h" THEN "--help"
  ELSE "--version"

\* variant: the parser is not told to stop at the first positional token
StopAtPositional_Off == FALSE

\* line 231: stopAtPositional: true
StopAtPositional == TRUE

\* what the option parser has collected: the positional tokens (_), the
\* options seen, and the error it threw
NoArgs ==
  [ rest |-> << >>, eval |-> Undefined, interactive |-> Undefined,
    help |-> Undefined, version |-> Undefined, threw |-> Undefined ]

\* the option parser from token i on: with stopAtPositional, once a
\* positional token is collected all further tokens are collected as they
\* are; "--" ends the options and is dropped; --eval takes the next token as
\* its value and fails without one; --version counts; the others are flags
RECURSIVE ArgFrom(_, _, _)
ArgFrom(argv, i, result) ==
  IF i > Len(argv) THEN result
  ELSE IF StopAtPositional /\ result.rest # << >>
  THEN [result EXCEPT !.rest = @ \o SubSeq(argv, i, Len(argv))]
  ELSE IF argv[i] = "--"
  THEN [result EXCEPT !.rest = @ \o SubSeq(argv, i + 1, Len(argv))]
  ELSE IF ~LooksLikeOption(argv[i])
  THEN ArgFrom(argv, i + 1, [result EXCEPT !.rest = Append(@, argv[i])])
  ELSE IF OptionOf(argv[i]) = "--eval"
  THEN IF i + 1 > Len(argv) \/ LooksLikeOption(argv[i + 1])
       THEN [result EXCEPT !.threw = Some("option requires argument: -e")]
       ELSE ArgFrom(argv, i + 2, [result EXCEPT !.eval = Some(argv[i + 1])])
  ELSE IF OptionOf(argv[i]) = "--version"
  THEN ArgFrom(argv, i + 1,
         [result EXCEPT !.version =
            Some(IF IsDefined(@) THEN ValueOf(@) + 1 ELSE 1)])
  ELSE IF OptionOf(argv[i]) = "--help"
  THEN ArgFrom(argv, i + 1, [result EXCEPT !.help = Some(TRUE)])
  ELSE ArgFrom(argv, i + 1, [result EXCEPT !.interactive = Some(TRUE)])

\* x = default in a destructuring pattern (lines 239-273)
OrDefault(o, default) == IF IsDefined(o) THEN ValueOf(o) ELSE default

\* parseArgv: the record of lines 274-311, or the error of the option parser
ParseArgv(argv) ==
  LET args == ArgFrom(argv, 1, NoArgs)
  IN  [ threw |-> args.threw,
        result |->
          [ code |-> args.eval,
            interactive |-> OrDefault(args.interactive, FALSE),
            print |-> FALSE,
            restArgs |-> args.rest,
            scriptMode |-> FALSE,
            cwdMode |-> FALSE,
            esm |-> FALSE,
            help |-> OrDefault(args.help, FALSE),
            version |-> OrDefault(args.version, 0),
            showConfig |-> FALSE,
            cwdArg |-> Undefined ] ]

\* process.argv.slice(2), the default argv of main
CommandLine == SubSeq(processArgv["parent"], 3, Len(processArgv["parent"]))

\* the state before main has called parseArgv
InitArgv ==
  /\ parseArgvResult = ParseArgv(<< >>).result
  /\ stdinIsTTY \in BOOLEAN
  /\ tsconfigEsm = FALSE
  /\ pc = [p \in AllProcs |-> IF p = "parent" THEN "main" ELSE "unborn"]
  /\ state = [p \in AllProcs |-> NoState]
  /\ epCalls = [p \in AllProcs |-> {}]
  /\ configLookups = [p \in AllProcs |-> 0]
  /\ spawnCount = 0
  /\ stdout = [p \in AllProcs |-> << >>]
  /\ stderr = [p \in AllProcs |-> << >>]
  /\ exitCode = [p \in AllProcs |-> Undefined]
  /\ thrown = [p \in AllProcs |-> Undefined]
  /\ \E argv \in BoundedSeq(ArgvTokens, MaxArgv) :
       processArgv = [p \in AllProcs |->
         IF p = "parent" THEN <<"node", "bin.js">> \o argv ELSE << >>]
  /\ execArgv = [p \in AllProcs |-> << >>]
  /\ service = [p \in AllProcs |-> NoService]
  /\ ran = [p \in AllProcs |-> << >>]
  /\ stdinBuffer = [p \in AllProcs |-> Undefined]
  /\ evalLog = [p \in AllProcs |-> << >>]
  /\ stdinLog = [p \in AllProcs |-> << >>]
  /\ requireExtensions = [p \in AllProcs |-> DefaultExtensions]
  /\ resolveLog = [p \in AllProcs |-> Undefined]

\* main, lines 53-56: the call of parseArgv
MainParseArgv ==
  /\ pc["parent"] = "main"
  /\ LET parsed == ParseArgv(CommandLine)
     IN  IF IsDefined(parsed.threw)
         THEN /\ thrown' = [thrown EXCEPT !["parent"] = parsed.threw]
              /\ pc' = [pc EXCEPT !["parent"] = "threw"]
              /\ UNCHANGED parseArgvResult
         ELSE /\ parseArgvResult' = parsed.result
              /\ pc' = [pc EXCEPT !["parent"] = "phase2"]
              /\ UNCHANGED thrown
  /\ UNCHANGED << stdinIsTTY, tsconfigEsm, state, epCalls, configLookups,
                  spawnCount, stdout, stderr, exitCode, processArgv, execArgv,
                  service, ran, stdinBuffer, evalLog, stdinLog, hostVars >>

ArgvSpec == InitArgv /\ [][MainParseArgv]_vars

----------------------------------------------------------------------------
(* The pipeline up to phase3 in a host that may have registered handlers   *)
(* of its own before main is called.                                       *)

InitExtensions ==
  /\ parseArgvResult \in
       { a \in ParseArgvResults :
           /\ ~a.interactive /\ ~a.print /\ ~a.esm /\ ~a.showConfig
           /\ a.version \in {0, 1} }
  /\ stdinIsTTY \in BOOLEAN
  /\ tsconfigEsm = FALSE
  /\ pc = [p \in AllProcs |-> IF p = "parent" THEN "phase2" ELSE "unborn"]
  /\ state = [p \in AllProcs |-> NoState]
  /\ epCalls = [p \in AllProcs |-> {}]
  /\ configLookups = [p \in AllProcs |-> 0]
  /\ spawnCount = 0
  /\ stdout = [p \in AllProcs |-> << >>]
  /\ stderr = [p \in AllProcs |-> << >>]
  /\ exitCode = [p \in AllProcs |-> Undefined]
  /\ thrown = [p \in AllProcs |-> Undefined]
  /\ processArgv =
       [p \in AllProcs |-> IF p = "parent" THEN <<"node", "bin.js">> ELSE << >>]
  /\ execArgv = [p \in AllProcs |-> << >>]
  /\ service = [p \in AllProcs |-> NoService]
  /\ ran = [p \in AllProcs |-> << >>]
  /\ stdinBuffer = [p \in AllProcs |-> Undefined]
  /\ evalLog = [p \in AllProcs |-> << >>]
  /\ stdinLog = [p \in AllProcs |-> << >>]
  /\ \E table \in ExtensionTables :
       requireExtensions =
         [p \in AllProcs |-> IF p = "parent" THEN table ELSE DefaultExtensions]
  /\ resolveLog = [p \in AllProcs |-> Undefined]

ExtensionsSpec == InitExtensions /\ [][Phase2 \/ BootstrapPhase3]_vars

----------------------------------------------------------------------------
(* Vocabulary of the properties. *)

AllCalls == UNION {epCalls[p] : p \in Procs}

HasRan(p, kind) == \E i \in 1..Len(ran[p]) : ran[p][i].kind = kind

\* phase4 reached its dispatch in process p (lines 674-737 were executed)
Dispatched(p) == execArgv[p] # << >>

\* the getEntryPointInfo call phase4 made in process p
Phase4CallOf(p) == Phase4Call(state[p], stdinIsTTY)

\* no process can take a further step of the pipeline
Quiescent ==
  \A p \in Procs : pc[p] \in {"unborn", "returned", "exited", "threw",
                              "userCode", "repl", "finished"}

\* the positions of a process that has not got past phase3
BeforePhase4 ==
  {"unborn", "phase2", "bootstrap", "completeBootstrap", "returned", "exited",
   "threw"}

\* phase2 ended the invocation: the help text or the short version
ExitedInPhase2 ==
  /\ pc["parent"] = "exited"
  /\ exitCode["parent"] = Some(0)
  /\ parseArgvResult.help \/ parseArgvResult.version = 1
  /\ pc["child"] = "unborn"

UsageErrors == {Some(ErrCwdScript), Some(ErrNoScript)}

----------------------------------------------------------------------------
(* Entry-point disambiguation *)

\* C1: in every call of getEntryPointInfo with the inline code present and
\* the interactive flag false, executeEval is true, whatever the rest
\* arguments and whether or not standard input is a terminal.
C1_EvalWithoutInteractive ==
  \A c \in AllCalls :
    IsDefined(c.code) /\ ~c.interactive => c.info.executeEval

C1_Witness ==
  \E c \in AllCalls :
    /\ IsDefined(c.code) /\ ~c.interactive
    /\ Len(c.restArgs) > 0 /\ ~c.isTTY
    /\ c.info.executeEval

\* C2: with inline code, the interactive flag and a non-empty rest-argument
\* list, executeEval is false and executeEntrypoint is true, and a process
\* whose phase4 dispatches on that call runs the entry point and never
\* evaluates the inline code.
C2_InteractiveScriptBeatsEval ==
  /\ \A c \in AllCalls :
       IsDefined(c.code) /\ c.interactive /\ Len(c.restArgs) > 0
         => ~c.info.executeEval /\ c.info.executeEntrypoint
  /\ \A p \in Procs :
       LET c == Phase4CallOf(p)
       IN  IsDefined(c.code) /\ c.interactive /\ Len(c.restArgs) > 0
             => /\ ~HasRan(p, "eval")
                /\ Dispatched(p) =>
                     /\ HasRan(p, "runMain") \/ HasRan(p, "runmain-hack")
                     /\ pc[p] = "userCode"

C2_Witness ==
  \E p \in Procs :
    /\ pc[p] = "userCode"
    /\ IsDefined(Phase4CallOf(p).code)
    /\ Phase4CallOf(p).interactive
    /\ Phase4CallOf(p) \in epCalls[p]

\* C3: whenever getEntryPointInfo returns executeEval = false, exactly one of
\* executeEntrypoint, executeRepl and executeStdin is true.
C3_ExactlyOneWithoutEval ==
  \A c \in AllCalls :
    ~c.info.executeEval =>
      Cardinality({f \in {"executeEntrypoint", "executeRepl", "executeStdin"} :
                     c.info[f]}) = 1

C3_Witness ==
  \E c \in AllCalls :
    ~c.info.executeEval /\ ~c.info.executeEntrypoint /\ c.info.executeStdin

\* C4: executeStdin is never true together with executeEval or executeRepl,
\* executeEntrypoint is never true together with another flag (so eval with
\* REPL is the only pair), and no process consumes stdin when it evaluates
\* inline code or starts the REPL.
C4_StdinNeverCombined ==
  /\ \A c \in AllCalls :
       /\ ~(c.info.executeStdin /\ (c.info.executeEval \/ c.info.executeRepl))
       /\ ~(c.info.executeEntrypoint /\
              (c.info.executeEval \/ c.info.executeRepl \/ c.info.executeStdin))
  /\ \A p \in Procs :
       IsDefined(stdinBuffer[p]) \/ HasRan(p, "stdin")
         => ~HasRan(p, "eval") /\ ~HasRan(p, "repl")

C4_Witness ==
  \E p \in Procs :
    /\ HasRan(p, "eval") /\ HasRan(p, "repl")
    /\ Phase4CallOf(p).info.executeEval /\ Phase4CallOf(p).info.executeRepl

\* C5 as stated: with no inline code, the interactive flag not set and a
\* standard input that is not a terminal, executeStdin is true.
C5_Original ==
  \A c \in AllCalls :
    ~IsDefined(c.code) /\ ~c.interactive /\ ~c.isTTY => c.info.executeStdin

\* C5: with no inline code, the interactive flag not set, a standard input
\* that is not a terminal and an empty rest-argument list, executeStdin is
\* true; with rest arguments the entry point is selected instead.
C5_PipedInputSelectsStdin ==
  \A c \in AllCalls :
    ~IsDefined(c.code) /\ ~c.interactive /\ ~c.isTTY
      => /\ Len(c.restArgs) = 0 => c.info.executeStdin
         /\ Len(c.restArgs) > 0 =>
              c.info.executeEntrypoint /\ ~c.info.executeStdin

C5_Witness ==
  \E p \in Procs :
    /\ pc[p] = "stdinWait"
    /\ ~IsDefined(Phase4CallOf(p).code) /\ ~Phase4CallOf(p).interactive
    /\ ~stdinIsTTY
    /\ Phase4CallOf(p).info.executeStdin

----------------------------------------------------------------------------
(* The entry point and the argument vector *)

\* the invocation is a script path followed by arguments, with no tool flag
NoToolFlags ==
  /\ ~IsDefined(parseArgvResult.code) /\ ~parseArgvResult.interactive
  /\ ~parseArgvResult.print /\ ~parseArgvResult.scriptMode
  /\ ~parseArgvResult.cwdMode /\ ~parseArgvResult.esm
  /\ ~parseArgvResult.help /\ parseArgvResult.version = 0
  /\ ~parseArgvResult.showConfig /\ ~IsDefined(parseArgvResult.cwdArg)
  /\ Len(parseArgvResult.restArgs) > 0

\* the program of a process: process.argv[1] at its start
ProgramOf(p) == IF p = "parent" THEN "bin.js" ELSE "child-entrypoint.js"

\* the resolution directory of the invocation
ResolutionDirectory ==
  IF IsDefined(parseArgvResult.cwdArg) THEN ValueOf(parseArgvResult.cwdArg)
  ELSE "/home/user"

\* the script token made absolute against the resolution directory
ScriptPath ==
  LET token == parseArgvResult.restArgs[1]
  IN  IF token = "/opt/main.ts" THEN token
      ELSE ResolutionDirectory \o "/" \o token

\* C6: for a script path followed by arguments and no tool flags,
\* executeEntrypoint is true and entryPointPath is the script token resolved
\* against the resolution directory; phase4 rewrites process.argv to the
\* program, the entry-point path and the rest arguments after the script
\* token, and in the other modes to the program and all rest arguments.
C6_ScriptAndArgv ==
  /\ NoToolFlags =>
       \A c \in AllCalls :
         /\ c.info.executeEntrypoint
         /\ c.info.entryPointPath = Some(ScriptPath)
  /\ \A p \in Procs :
       Dispatched(p) =>
         processArgv[p] =
           IF Phase4CallOf(p).info.executeEntrypoint
           THEN <<ProgramOf(p), ScriptPath>> \o Tail(parseArgvResult.restArgs)
           ELSE <<ProgramOf(p)>> \o parseArgvResult.restArgs

C6_Witness ==
  \E p \in Procs :
    /\ NoToolFlags /\ pc[p] = "userCode"
    /\ parseArgvResult.restArgs = <<"script.ts", "/opt/main.ts">>
    /\ processArgv[p] = <<ProgramOf(p), "/home/user/script.ts", "/opt/main.ts">>

----------------------------------------------------------------------------
(* Usage errors *)

\* C7 as stated: every invocation with both script-mode and cwd-mode ends
\* with the usage error.
C7_Original ==
  parseArgvResult.scriptMode /\ parseArgvResult.cwdMode /\ Quiescent
    => \E p \in Procs : thrown[p] = Some(ErrCwdScript)

\* C7: an invocation with both script-mode and cwd-mode that phase2 does not
\* end (help, version 1) raises the TypeError of getProjectSearchDir in the
\* process that runs phase3, and no process of it ever calls
\* findAndReadConfig or gets past phase3.
C7_ModeConflictBeforeConfig ==
  parseArgvResult.scriptMode /\ parseArgvResult.cwdMode
    => /\ \A p \in Procs :
            /\ configLookups[p] = 0
            /\ pc[p] \in BeforePhase4
            /\ ~IsDefined(state[p].phase3Result)
            /\ pc[p] = "threw" => thrown[p] = Some(ErrCwdScript)
            /\ pc[p] = "exited" => ExitedInPhase2
       /\ Quiescent =>
            \/ ExitedInPhase2
            \/ \E p \in Procs : thrown[p] = Some(ErrCwdScript)

C7_Witness ==
  /\ parseArgvResult.scriptMode /\ parseArgvResult.cwdMode
  /\ Len(parseArgvResult.restArgs) > 0
  /\ thrown["child"] = Some(ErrCwdScript)
  /\ \A p \in Procs : configLookups[p] = 0

\* C8 as stated: every invocation with script-mode and no rest argument ends
\* with a usage error.
C8_Original ==
  parseArgvResult.scriptMode /\ parseArgvResult.restArgs = << >> /\ Quiescent
    => \E p \in Procs : thrown[p] \in UsageErrors

\* C8: an invocation with script-mode and an empty rest-argument list that
\* phase2 does not end (help, version 1) raises a usage error: the one for
\* the missing script name, or the mode conflict when cwd-mode is set too.
C8_ScriptModeNeedsScript ==
  parseArgvResult.scriptMode /\ parseArgvResult.restArgs = << >>
    => /\ \A p \in Procs :
            /\ pc[p] \in BeforePhase4
            /\ pc[p] = "threw" =>
                 thrown[p] = IF parseArgvResult.cwdMode
                             THEN Some(ErrCwdScript) ELSE Some(ErrNoScript)
            /\ pc[p] = "exited" => ExitedInPhase2
       /\ Quiescent =>
            \/ ExitedInPhase2
            \/ \E p \in Procs : thrown[p] \in UsageErrors

C8_Witness ==
  /\ parseArgvResult.scriptMode /\ ~parseArgvResult.cwdMode
  /\ parseArgvResult.restArgs = << >>
  /\ thrown["parent"] = Some(ErrNoScript)

----------------------------------------------------------------------------
(* Re-execution in the child process *)

ChildPastPhase3 ==
  pc["child"] \in {"phase4", "phase4Info", "phase4Run", "userCode", "repl",
                   "stdinWait", "finished"}

C10_EsmLoaderIsOrAndCopied ==
  \A p \in Procs :
    /\ IsDefined(state[p].phase3Result) =>
         /\ ValueOf(state[p].phase3Result).enableEsmLoader
              = (parseArgvResult.esm \/ tsconfigEsm)
         /\ ValueOf(state[p].phase3Result).preloadedConfig.options.esm
              = tsconfigEsm
    /\ Dispatched(p) =>
         /\ Len(execArgv[p]) = 1
         /\ execArgv[p][1].childScriptArgs.phase3Result.enableEsmLoader
              = (parseArgvResult.esm \/ tsconfigEsm)

C10_Witness ==
  \E p \in Procs :
    /\ Dispatched(p)
    /\ ~parseArgvResult.esm /\ tsconfigEsm
    /\ execArgv[p][1].childScriptArgs.phase3Result.enableEsmLoader

----------------------------------------------------------------------------
\* C11: bootstrap starts the child process at most once and before any user
\* code runs; the process that starts it never runs phase4 itself (no
\* getEntryPointInfo call of phase4, no compiler service, no dispatch), and
\* the child, which resumes in completeBootstrap, starts no further process.
C11_SpawnOnceBeforeUserCode ==
  /\ spawnCount <= 1
  /\ (pc["child"] # "unborn") = (spawnCount = 1)
  /\ spawnCount = 0 => ran["child"] = << >> /\ ~Dispatched("child")
  /\ spawnCount = 1 =>
       /\ pc["parent"] = "returned"
       /\ \A c \in epCalls["parent"] : c.phase # "phase4"
       /\ service["parent"] = NoService
       /\ ran["parent"] = << >>
       /\ ~Dispatched("parent")
       /\ ~IsDefined(stdinBuffer["parent"])
       /\ processArgv["parent"] = <<"node", "bin.js">>

C11_Witness ==
  /\ spawnCount = 1
  /\ pc["parent"] = "returned"
  /\ pc["child"] \in {"userCode", "repl", "finished"}
  /\ ran["child"] # << >>

\* the status a process ends with: the argument of process.exit; 1 when an
\* error left the pipeline uncaught (no caller of phase4 catches it, and the
\* host ends the process with status 1); 0 when it ran out of work
ProcessExitStatus(p) ==
  IF IsDefined(exitCode[p]) THEN exitCode[p]
  ELSE IF IsDefined(thrown[p]) THEN Some(1)
  ELSE IF pc[p] = "finished" THEN Some(0)
  ELSE Undefined

\* the evaluations of kind `kind` the process made
EvaluationsOf(p, kind) ==
  {i \in DOMAIN evalLog[p] : evalLog[p][i].kind = kind}

\* C12: when the evaluation of the inline code throws (a compiler error or
\* any other error), the process ends with exit status 1, nothing is printed
\* on standard output even with the print flag set, and the REPL is not
\* started.
C12_EvalErrorExitsOne ==
  \A p \in Procs : \A i \in EvaluationsOf(p, "eval") :
    evalLog[p][i].outcome # "value" =>
      /\ pc[p] \in {"exited", "threw"}
      /\ ProcessExitStatus(p) = Some(1)
      /\ stdout[p] = << >>
      /\ ~HasRan(p, "repl")

C12_Witness ==
  \E p \in Procs : \E i \in EvaluationsOf(p, "eval") :
    /\ evalLog[p][i].outcome = "Error"
    /\ evalLog[p][i].isPrinted
    /\ IsDefined(thrown[p])
    /\ stdout[p] = << >>

\* C13: in eval and stdin modes a TSError thrown by the evaluation is printed
\* on standard error and process.exit(1) is called; any other error is
\* rethrown as it was thrown, nothing is printed and process.exit is not
\* called.
C13_OnlyTSErrorCaught ==
  \A p \in Procs : \A i \in DOMAIN evalLog[p] :
    LET ev == evalLog[p][i]
        error == EvalCode(ev.code, ev.outcome).threw
    IN  /\ ev.outcome = "TSError" =>
             /\ stderr[p] = <<ValueOf(error)>>
             /\ exitCode[p] = Some(1)
             /\ ~IsDefined(thrown[p])
             /\ pc[p] = "exited"
        /\ ev.outcome = "Error" =>
             /\ thrown[p] = error
             /\ ~IsDefined(exitCode[p])
             /\ stderr[p] = << >>
             /\ stdout[p] = << >>
             /\ pc[p] = "threw"

C13_Witness ==
  /\ \E p \in Procs : \E i \in EvaluationsOf(p, "stdin") :
       evalLog[p][i].outcome = "Error" /\ IsDefined(thrown[p])
  /\ parseArgvResult.print

\* C14: when the inline code is evaluated successfully, its result is printed
\* exactly once if the print flag is set and not at all otherwise (1+1 is
\* printed as 2), process.exit is not called and no error is thrown; with no
\* REPL to start the process ends with status 0.
C14_EvalSuccessPrintsOnce ==
  \A p \in Procs : \A i \in EvaluationsOf(p, "eval") :
    LET ev == evalLog[p][i]
    IN  ev.outcome = "value" =>
          /\ ev.isPrinted = ValueOf(state[p].initialArgv).print
          /\ stdout[p] = IF ev.isPrinted
                         THEN <<ConsoleLogOf(ResultOf(ev.code))>> ELSE << >>
          /\ (ev.isPrinted /\ ev.code = "1+1") => stdout[p] = <<"2">>
          /\ stderr[p] = << >>
          /\ ~IsDefined(exitCode[p])
          /\ ~IsDefined(thrown[p])
          /\ pc[p] \in {"finished", "repl"}
          /\ pc[p] = "finished" => ProcessExitStatus(p) = Some(0)

C14_Witness ==
  \E p \in Procs : \E i \in EvaluationsOf(p, "eval") :
    /\ evalLog[p][i].outcome = "value"
    /\ evalLog[p][i].isPrinted
    /\ stdout[p] = <<"2">>
    /\ ProcessExitStatus(p) = Some(0)

\* nothing of phase3, of the child process or of phase4 has happened
NothingBeyondPhase2 ==
  /\ \A p \in Procs :
       /\ configLookups[p] = 0
       /\ epCalls[p] = {}
       /\ service[p] = NoService
       /\ ran[p] = << >> /\ evalLog[p] = << >>
       /\ ~Dispatched(p)
       /\ ~IsDefined(thrown[p])
  /\ spawnCount = 0
  /\ pc["child"] = "unborn"
  /\ processArgv["parent"] = <<"node", "bin.js">>

\* C15: with the help flag phase2 prints the usage text and exits with
\* status 0, whatever the version count; without it and with a version count
\* of exactly 1, phase2 prints the short version and exits with status 0; in
\* both cases no configuration is looked up, no child is started and nothing
\* is dispatched.
C15_HelpAndShortVersionExit ==
  pc["parent"] # "phase2" =>
    /\ parseArgvResult.help =>
         /\ pc["parent"] = "exited"
         /\ stdout["parent"] = <<"usage">>
         /\ exitCode["parent"] = Some(0)
         /\ NothingBeyondPhase2
    /\ (~parseArgvResult.help /\ parseArgvResult.version = 1) =>
         /\ pc["parent"] = "exited"
         /\ stdout["parent"] = <<"vVERSION">>
         /\ exitCode["parent"] = Some(0)
         /\ NothingBeyondPhase2
    /\ (~parseArgvResult.help /\ parseArgvResult.version # 1) =>
         /\ state["parent"].initialArgv = Some(parseArgvResult)
         /\ pc["parent"] = "bootstrap" =>
              stdout["parent"] = << >> /\ ~IsDefined(exitCode["parent"])

C15_Witness ==
  /\ parseArgvResult.help /\ parseArgvResult.version = 1
  /\ parseArgvResult.esm /\ parseArgvResult.showConfig
  /\ pc["parent"] = "exited"
  /\ stdout["parent"] = <<"usage">>

\* phase4 in process p is past its version and show-configuration exits
PastIntrospection(p) ==
  service[p].created > 0 /\ pc[p] # "phase4Info"

\* C16: with a version count of 2 or more, or with the show-configuration
\* flag, phase4 ends the process once the compiler service is constructed and
\* registered and before any user code: no entry point, evaluation or REPL is
\* run, no stdin handler is registered, process.argv and process.execArgv are
\* as they were.  The version is tested first (it wins over the flag) and
\* exits with status 0; show-configuration exits with status 0 after printing
\* the configuration, or with status 1 after an error message when the
\* compiler cannot convert it.
C16_IntrospectionExitsBeforeUserCode ==
  \A p \in Procs :
    LET argv == ValueOf(state[p].initialArgv)
    IN  (PastIntrospection(p) /\ (argv.version >= 2 \/ argv.showConfig)) =>
          /\ pc[p] = "exited"
          /\ service[p].created = 1 /\ service[p].registered
          /\ ran[p] = << >> /\ evalLog[p] = << >>
          /\ ~IsDefined(stdinBuffer[p])
          /\ execArgv[p] = << >>
          /\ processArgv[p] = <<"node", ProgramOf(p)>>
          /\ ~IsDefined(thrown[p])
          /\ argv.version = 2 =>
               /\ stdout[p] = <<"ts-node vVERSION", "node", "compiler">>
               /\ stderr[p] = << >> /\ exitCode[p] = Some(0)
          /\ argv.version >= 3 =>
               /\ stdout[p] = <<"ts-node vVERSION dir", "node", "compiler path">>
               /\ stderr[p] = << >> /\ exitCode[p] = Some(0)
          /\ argv.version < 2 =>
               \/ /\ stdout[p] = <<"config json">>
                  /\ stderr[p] = << >> /\ exitCode[p] = Some(0)
               \/ /\ stdout[p] = << >>
                  /\ stderr[p] =
                       <<"Error: --showConfig requires typescript >=3.2">>
                  /\ exitCode[p] = Some(1)

C16_Witness ==
  \E p \in Procs :
    /\ PastIntrospection(p)
    /\ ValueOf(state[p].initialArgv).showConfig
    /\ ValueOf(state[p].initialArgv).version = 0
    /\ IsDefined(ValueOf(state[p].initialArgv).code)
    /\ exitCode[p] = Some(1)
    /\ service[p].registered

\* C17: when the inline code and the REPL are both selected, the code is
\* evaluated first and the REPL is started only after it, and only if the
\* evaluation returned; the process constructs one compiler service, once,
\* and binds it to the REPL service of every active mode (here eval and repl)
\* before any evaluation.
C17_EvalThenReplOneService ==
  \A p \in Procs :
    /\ service[p].created <= 1
    /\ (ran[p] # << >> \/ evalLog[p] # << >> \/ IsDefined(stdinBuffer[p])) =>
         /\ service[p].created = 1
         /\ service[p].bound = VirtualFiles(Phase4CallOf(p).info)
    /\ (/\ Dispatched(p)
        /\ Phase4CallOf(p).info.executeEval
        /\ Phase4CallOf(p).info.executeRepl) =>
         /\ service[p].bound = {"eval", "repl"}
         /\ Len(evalLog[p]) = 1
         /\ ran[p][1].kind = "eval"
         /\ IF evalLog[p][1].outcome = "value"
            THEN /\ Len(ran[p]) = 2 /\ ran[p][2].kind = "repl"
                 /\ pc[p] = "repl"
            ELSE /\ Len(ran[p]) = 1
                 /\ pc[p] \in {"exited", "threw"}

C17_Witness ==
  \E p \in Procs :
    /\ Phase4CallOf(p).info.executeEval /\ Phase4CallOf(p).info.executeRepl
    /\ Len(ran[p]) = 2
    /\ ran[p][1].kind = "eval" /\ ran[p][2].kind = "repl"
    /\ service[p].created = 1
    /\ service[p].bound = {"eval", "repl"}

\* the string conversions of the chunks, concatenated in the order given
RECURSIVE ConcatChunks(_)
ConcatChunks(chunks) ==
  IF chunks = << >> THEN ""
  ELSE Utf8ToString(Head(chunks)) \o ConcatChunks(Tail(chunks))

\* C18: in stdin mode nothing is evaluated while the end event has not
\* arrived, whatever data events have; the end event evaluates, once, the
\* chunks received so far, each converted to a string, concatenated in
\* arrival order.
C18_StdinEvaluatedAtEnd ==
  \A p \in Procs :
    /\ pc[p] = "stdinWait" =>
         /\ evalLog[p] = << >> /\ ran[p] = << >>
         /\ stdout[p] = << >> /\ stderr[p] = << >>
         /\ ValueOf(stdinBuffer[p]).buffer = ConcatChunks(stdinLog[p])
    /\ Cardinality(EvaluationsOf(p, "stdin")) <= 1
    /\ \A i \in EvaluationsOf(p, "stdin") :
         /\ pc[p] # "stdinWait"
         /\ evalLog[p][i].code = ConcatChunks(stdinLog[p])
         /\ ran[p] = <<Event("stdin", ConcatChunks(stdinLog[p]))>>
    /\ stdinLog[p] # << >> => IsDefined(stdinBuffer[p])

C18_Witness ==
  \E p \in Procs : \E i \in EvaluationsOf(p, "stdin") :
    /\ stdinLog[p] = << <<97>>, <<195, 169>> >>
    /\ evalLog[p][i].code = "aU+233"
    /\ evalLog[p][i].outcome = "value"

----------------------------------------------------------------------------
(* The state for forked processes *)

\* the state phase4 encoded last on process.execArgv
ForkStateOf(p) == execArgv[p][Len(execArgv[p])].childScriptArgs

\* C19: the state phase4 appends to process.execArgv for forked processes
\* has the fields restArgs and phase3Result and no other, phase3Result has
\* the fields enableEsmLoader and preloadedConfig and no other, and they are
\* those of the state phase4 was given; so it has no initialArgv (inline
\* code, interactive flag, version, show-configuration flag, ...) and no
\* initialResolutionCwd, whether phase4 was given the full state of the
\* initial process or the state of a forked process.
C19_ForkStateWithoutOptions ==
  \A p \in AllProcs :
    Dispatched(p) =>
      /\ DOMAIN ForkStateOf(p) = {"restArgs", "phase3Result"}
      /\ DOMAIN ForkStateOf(p).phase3Result
           = {"enableEsmLoader", "preloadedConfig"}
      /\ ForkStateOf(p).restArgs = state[p].restArgs
      /\ ForkStateOf(p).phase3Result.enableEsmLoader
           = ValueOf(state[p].phase3Result).enableEsmLoader
      /\ ForkStateOf(p).phase3Result.preloadedConfig
           = ValueOf(state[p].phase3Result).preloadedConfig

C19_Witness ==
  \E p \in Procs :
    /\ Dispatched(p)
    /\ IsDefined(state[p].initialArgv)
    /\ IsDefined(ValueOf(state[p].initialArgv).code)
    /\ ValueOf(state[p].initialArgv).interactive
    /\ IsDefined(state[p].initialResolutionCwd)
    /\ DOMAIN ForkStateOf(p) = {"restArgs", "phase3Result"}

\* the getEntryPointInfo calls phase4 made in the forked process
ForkedCalls == {c \in epCalls["forked"] : c.phase = "phase4"}

\* the process of the invocation whose user code forked
Forkers == {p \in Procs : ran[p] # << >>}

\* the entry-point information a non-forked run computes for these rest
\* arguments: the one of the invocation of process p, its inline code left out
DirectInfo(p, restArgs) ==
  GetEntryPointInfo(ValueOf(state[p].initialResolutionCwd),
    [ code |-> Undefined,
      interactive |-> ValueOf(state[p].initialArgv).interactive,
      restArgs |-> restArgs ],
    stdinIsTTY)

\* C20 as stated: the entry-point information of the forked process is the
\* one a non-forked run computes from the same rest arguments, the inline
\* code apart.
C20_Original ==
  \A c \in ForkedCalls : \A p \in Forkers :
    c.info = DirectInfo(p, c.restArgs)

\* C20: phase4 of a forked process computes the entry-point information from
\* its rest arguments alone: no inline code, interactive flag false, and the
\* process working directory as resolution directory.  It is the information
\* of the non-forked run (inline code apart) unless that run had the
\* interactive flag set, the rest arguments are empty and standard input is
\* no terminal (REPL there, stdin here), or had another resolution directory
\* and the script token is relative (another entryPointPath).
C20_ForkedInfoFromRestArgs ==
  \A c \in ForkedCalls :
    /\ ~IsDefined(c.code) /\ ~c.interactive
    /\ c.resolutionCwd = ProcessCwd
    /\ c.restArgs = state["forked"].restArgs
    /\ c.info = GetEntryPointInfo(ProcessCwd,
                  [ code |-> Undefined, interactive |-> FALSE,
                    restArgs |-> c.restArgs ], stdinIsTTY)
    /\ \A p \in Forkers :
         LET sameModes ==
               \/ ~ValueOf(state[p].initialArgv).interactive
               \/ c.restArgs # << >>
               \/ stdinIsTTY
             samePath ==
               \/ ValueOf(state[p].initialResolutionCwd) = ProcessCwd
               \/ c.restArgs = << >>
               \/ c.restArgs[1] \in AbsolutePaths
         IN  (sameModes /\ samePath) = (c.info = DirectInfo(p, c.restArgs))

C20_Witness ==
  \E c \in ForkedCalls : \E p \in Forkers :
    /\ c.restArgs = state[p].restArgs
    /\ c.restArgs # << >>
    /\ IsDefined(ValueOf(state[p].initialArgv).code)
    /\ c.info.executeEntrypoint
    /\ c.info = DirectInfo(p, c.restArgs)

----------------------------------------------------------------------------
(* Argument normalization *)

\* where the rest arguments start on the command line, if they are its end
RestStart == Len(CommandLine) - Len(parseArgvResult.restArgs) + 1

\* the number of tokens -v among the first n tokens
RECURSIVE CountVersion(_, _)
CountVersion(argv, n) ==
  IF n = 0 THEN 0
  ELSE CountVersion(argv, n - 1) + (IF argv[n] = "-v" THEN 1 ELSE 0)

\* C21: once parseArgv has returned, the rest arguments are the end of the
\* command line, token for token, starting at the first positional token
\* (the first token that is neither an option, nor the value of -e, nor the
\* "--" that ends the options); the options record is made from the tokens
\* before it alone: help, interactive, the version count and the inline code
\* are set only by tokens before the rest arguments.
C21_RestArgsFromFirstPositional ==
  pc["parent"] = "phase2" =>
    LET argv == CommandLine
        rest == parseArgvResult.restArgs
        k == RestStart
    IN  /\ rest = SubSeq(argv, k, Len(argv))
        /\ \A j \in 1..(k - 1) :
             LooksLikeOption(argv[j]) \/ (j > 1 /\ argv[j - 1] = "-e")
        /\ rest # << >> =>
             \/ ~LooksLikeOption(rest[1]) /\ (k > 1 => argv[k - 1] # "-e")
             \/ k > 1 /\ argv[k - 1] = "--"
        /\ parseArgvResult.help = (\E j \in 1..(k - 1) : argv[j] = "-h")
        /\ parseArgvResult.interactive
             = (\E j \in 1..(k - 1) : argv[j] = "-i")
        /\ parseArgvResult.version = CountVersion(argv, k - 1)
        /\ IsDefined(parseArgvResult.code)
             = (\E j \in 1..(k - 2) : argv[j] = "-e")
        /\ parseArgvResult =
             [ParseArgv(SubSeq(argv, 1, k - 1)).result EXCEPT !.restArgs = rest]

C21_Witness ==
  /\ pc["parent"] = "phase2"
  /\ CommandLine = <<"-i", "script.ts", "-h">>
  /\ parseArgvResult.restArgs = <<"script.ts", "-h">>
  /\ ~parseArgvResult.help /\ parseArgvResult.interactive

----------------------------------------------------------------------------
(* Workspace resolution *)

\* the processes whose getProjectSearchDir got to the script resolution
Resolvers == {p \in AllProcs : IsDefined(resolveLog[p])}

\* C22: after a call of getProjectSearchDir that resolved the script,
\* whether the resolution returned or threw, require.extensions is what it
\* was before the call: the extensions installed for the resolution are
\* exactly those of .js, .jsx, .ts, .tsx that had no handler, each of them
\* has no handler again, and a handler that was there before was the same
\* during the resolution and is the same after it.
C22_ExtensionHandlersRestored ==
  \A p \in Resolvers :
    LET log == ValueOf(resolveLog[p])
    IN  /\ requireExtensions[p] = log.before
        /\ log.installed = {ext \in Exts : log.before[ext] = NoHandler}
        /\ \A ext \in AllExts :
             IF ext \in log.installed
             THEN /\ log.during[ext] = TemporaryHandler
                  /\ requireExtensions[p][ext] = NoHandler
             ELSE /\ log.during[ext] = log.before[ext]
                  /\ requireExtensions[p][ext] = log.before[ext]

C22_Witness ==
  /\ IsDefined(resolveLog["parent"])
  /\ ValueOf(resolveLog["parent"]).threw
  /\ thrown["parent"] = Some(ErrNotFound)
  /\ ValueOf(resolveLog["parent"]).installed = {".jsx", ".tsx"}
  /\ requireExtensions["parent"][".ts"] = HostHandler
  /\ requireExtensions["parent"][".tsx"] = NoHandler

\* C23 as stated: a usage error is thrown in the initial process, before any
\* child process is spawned.
C23_Original ==
  \A p \in AllProcs :
    thrown[p] \in UsageErrors => p = "parent" /\ spawnCount = 0

\* C23: a usage error is thrown by the phase3 of the process that runs it
\* first, before any configuration lookup, any service and any user code of
\* that process: in the initial process, with no child spawned, when the esm
\* flag is not set; with the esm flag the initial process skips phase3 and
\* spawns the child, and the error is thrown in the child.  A forked process
\* never throws one.
C23_UsageErrorInFirstPhase3 ==
  \A p \in AllProcs :
    thrown[p] \in UsageErrors =>
      /\ pc[p] = "threw"
      /\ \E c \in epCalls[p] : c.phase = "phase3"
      /\ configLookups[p] = 0
      /\ service[p].created = 0 /\ ran[p] = << >>
      /\ p = (IF parseArgvResult.esm THEN "child" ELSE "parent")
      /\ p = "parent" => spawnCount = 0 /\ pc["child"] = "unborn"
      /\ p = "child" =>
           /\ spawnCount = 1 /\ pc["parent"] = "returned"
           /\ epCalls["parent"] = {} /\ ~IsDefined(thrown["parent"])

C23_Witness ==
  /\ thrown["child"] = Some(ErrNoScript)
  /\ parseArgvResult.esm /\ parseArgvResult.scriptMode
  /\ spawnCount = 1

\* the phase3 call of getEntryPointInfo process p made, if it made one
Phase3CallOf(p) == CHOOSE c \in epCalls[p] : c.phase = "phase3"

\* the directories of the paths the resolution of a script can return
ResolvedDirectories(scriptPath) ==
  {Dirname(ValueOf(r)) : r \in Resolutions(scriptPath) \ {Undefined}}

\* C24: when the phase3 of a process has got its project search directory,
\* it is the directory of the resolved entry-point script if script-mode is
\* set, or cwd-mode is not set and there is an entry-point path, and the
\* script was resolved in that case and in no other; otherwise (cwd-mode, or
\* no entry point) it is the resolution directory.
C24_ProjectSearchDir ==
  \A p \in Procs :
    (IsDefined(state[p].phase3Result) /\ configLookups[p] = 1) =>
      LET c == Phase3CallOf(p)
          argv == ValueOf(state[p].initialArgv)
          path == c.info.entryPointPath
          dir == ValueOf(state[p].phase3Result).preloadedConfig.projectSearchDir
      IN  IF argv.scriptMode \/ (~argv.cwdMode /\ IsDefined(path))
          THEN /\ IsDefined(path) /\ c.info.executeEntrypoint
               /\ dir \in ResolvedDirectories(path)
               /\ IsDefined(resolveLog[p]) /\ ~ValueOf(resolveLog[p]).threw
          ELSE /\ dir = c.resolutionCwd
               /\ ~IsDefined(resolveLog[p])
               /\ argv.cwdMode \/ ~c.info.executeEntrypoint

C24_Witness ==
  /\ IsDefined(state["parent"].phase3Result)
  /\ configLookups["parent"] = 1
  /\ parseArgvResult.cwdMode /\ ~parseArgvResult.scriptMode
  /\ Phase3CallOf("parent").info.entryPointPath = Some("/opt/main.ts")
  /\ Phase3CallOf("parent").resolutionCwd = "/srv/app"
  /\ ValueOf(state["parent"].phase3Result).preloadedConfig.projectSearchDir
       = "/srv/app"

\* C25: in a process whose phase3 has called getProjectSearchDir with
\* script-mode set and cwd-mode not set, the error for the missing script
\* name was thrown exactly when getEntryPointInfo did not select the entry
\* point; with inline code, the interactive flag not set and rest arguments
\* it was thrown, since the code is evaluated and entryPointPath is
\* undefined.
C25_ScriptModeErrorIffNoEntryPoint ==
  \A p \in Procs :
    \A c \in epCalls[p] :
      (c.phase = "phase3" /\ parseArgvResult.scriptMode
         /\ ~parseArgvResult.cwdMode) =>
        /\ (thrown[p] = Some(ErrNoScript)) = ~c.info.executeEntrypoint
        /\ c.info.executeEntrypoint = IsDefined(c.info.entryPointPath)
        /\ (IsDefined(c.code) /\ ~c.interactive /\ c.restArgs # << >>) =>
             /\ c.info.executeEval /\ ~IsDefined(c.info.entryPointPath)
             /\ thrown[p] = Some(ErrNoScript) /\ pc[p] = "threw"

C25_Witness ==
  /\ parseArgvResult.scriptMode /\ ~parseArgvResult.cwdMode
  /\ IsDefined(parseArgvResult.code) /\ ~parseArgvResult.interactive
  /\ parseArgvResult.restArgs = <<"script.ts">>
  /\ \E c \in epCalls["parent"] : c.phase = "phase3" /\ c.info.executeEval
  /\ thrown["parent"] = Some(ErrNoScript)

----------------------------------------------------------------------------
(* The two calls of getEntryPointInfo *)

\* C26: in a run with no child process, the call of getEntryPointInfo in
\* phase4 has the inputs of the call in phase3 (resolution directory, code,
\* interactive flag, rest arguments, terminal) and returns the same
\* EntryPointInfo: the four mode flags and entryPointPath.
C26_SameInfoInPhase3AndPhase4 ==
  spawnCount = 0 =>
    \A c3, c4 \in epCalls["parent"] :
      (c3.phase = "phase3" /\ c4.phase = "phase4") =>
        /\ c4.info = c3.info
        /\ c4.resolutionCwd = c3.resolutionCwd
        /\ c4.code = c3.code /\ c4.interactive = c3.interactive
        /\ c4.restArgs = c3.restArgs /\ c4.isTTY = c3.isTTY
        /\ c3.restArgs = parseArgvResult.restArgs
        /\ c3.code = parseArgvResult.code

C26_Witness ==
  /\ spawnCount = 0
  /\ IsDefined(parseArgvResult.cwdArg)
  /\ parseArgvResult.restArgs = <<"script.ts">>
  /\ \E c3, c4 \in epCalls["parent"] :
       /\ c3.phase = "phase3" /\ c4.phase = "phase4"
       /\ c4.info.entryPointPath = Some("/srv/app/script.ts")
       /\ c3.info = c4.info

----------------------------------------------------------------------------
(* phase4 in a forked process *)

\* what the version and show-configuration exits print
IntrospectionOutput ==
  {"ts-node vVERSION", "ts-node vVERSION dir", "config json",
   "Error: --showConfig requires typescript >=3.2"}

\* C27: a process resumed from the state for forked processes has no
\* initialArgv; its phase4 calls getEntryPointInfo with no inline code, so
\* executeEval is false and the mode is the entry point when the rest
\* arguments are not empty, otherwise the REPL when standard input is a
\* terminal and stdin when it is not; it evaluates no inline code, and it
\* goes past the version and show-configuration exits to the dispatch,
\* printing nothing of theirs.
C27_ForkedProcessModes ==
  /\ pc["forked"] # "unborn" => ~IsDefined(state["forked"].initialArgv)
  /\ \A c \in ForkedCalls :
       /\ ~IsDefined(c.code) /\ ~c.info.executeEval
       /\ c.info.executeEntrypoint = (c.restArgs # << >>)
       /\ c.info.executeRepl = (c.restArgs = << >> /\ c.isTTY)
       /\ c.info.executeStdin = (c.restArgs = << >> /\ ~c.isTTY)
  /\ EvaluationsOf("forked", "eval") = {} /\ ~HasRan("forked", "eval")
  /\ (PastIntrospection("forked") /\ pc["forked"] # "phase4Run") =>
       Dispatched("forked")
  /\ \A i \in DOMAIN stdout["forked"] :
       stdout["forked"][i] \notin IntrospectionOutput
  /\ \A i \in DOMAIN stderr["forked"] :
       stderr["forked"][i] \notin IntrospectionOutput

C27_Witness ==
  /\ Dispatched("forked")
  /\ \E c \in ForkedCalls :
       c.restArgs = << >> /\ ~c.isTTY /\ c.info.executeStdin
  /\ \E p \in Forkers :
       /\ IsDefined(ValueOf(state[p].initialArgv).code)
       /\ HasRan(p, "eval")

====
